---- MODULE Spec2Model ----
(***************************************************************************)
(* The two binary storage engines of tuggerah: the full-rewrite store      *)
(* (binary_file_entry_store.rs) and the indexed store                      *)
(* (indexed_binary_file_entry_store.rs), with their record iterators.      *)
(* Files are byte sequences; strings are sequences of byte values; the     *)
(* bincode encoding (fixed-width little-endian integers, u64 length        *)
(* prefixes, one-byte Option tags, trailing bytes allowed when decoding    *)
(* a slice) is computed byte by byte.                                      *)
(*                                                                         *)
(* A value that a step of the code computes and then uses several times    *)
(* is passed as an argument to the operator that models the rest of the    *)
(* step, so every operator names each of its callees once.                 *)
(***************************************************************************)
EXTENDS Integers, Sequences, FiniteSets, TLC

----------------------------------------------------------------------------
(* Bounds of the model *)

\* under Spec, save is not called once the data file holds this many payloads
MaxRecords == 2

\* under SpecSaveDelete, save is not called once the file (the data file of the
\* indexed store, the file of the full-rewrite store) holds this many records
MaxSaved == 3

----------------------------------------------------------------------------
(* Values: ids, entries, filters *)

\* "1" and "2" as UTF-8 bytes
Id1 == <<49>>
Id2 == <<50>>
Ids == {Id1, Id2}

\* Option<String>: None is the empty tuple, Some(s) the 1-tuple of s
None == <<>>
Some(s) == <<s>>

\* model.rs Entry
Entry(id, title, username) ==
    [id |-> id, title |-> title, username |-> username,
     password |-> None, url |-> None, note |-> None]

\* {"1","A"}, {"1","B",username "u"} (9 bytes longer) and {"2","A"}
E1a == Entry(Id1, <<65>>, None)
E1b == Entry(Id1, <<66>>, Some(<<117>>))
E2a == Entry(Id2, <<65>>, None)
Entries == {E1a, E1b, E2a}

\* the value a result carries when it carries no entry
NoEntry == Entry(<<>>, <<>>, None)

\* data_store.rs Filter: the three filters of the tests
Filters == {"MatchAll", "MatchNone", "TitleA"}
pass(filter, entry) ==
    CASE filter = "MatchAll" -> TRUE
      [] filter = "MatchNone" -> FALSE
      [] filter = "TitleA" -> entry.title = <<65>>

----------------------------------------------------------------------------
(* Sequences *)

Perms(S) ==
    {s \in [1..Cardinality(S) -> S] : \A a, b \in 1..Cardinality(S) : s[a] = s[b] => a = b}

\* the bytes of s after the first n, and the first n
Drop(s, n) == SubSeq(s, n + 1, Len(s))
Take(s, n) == SubSeq(s, 1, n)

Zeros(n) == [k \in 1..n |-> 0]

----------------------------------------------------------------------------
(* bincode: encoding *)

\* n as w little-endian bytes
RECURSIVE LittleEndian(_, _)
LittleEndian(n, w) == IF w = 0 THEN <<>> ELSE <<n % 256>> \o LittleEndian(n \div 256, w - 1)

SerU64(n) == LittleEndian(n, 8)
SerString(s) == SerU64(Len(s)) \o s
SerOption(o) == IF o = None THEN <<0>> ELSE <<1>> \o SerString(o[1])

\* bincode::serialize(&Entry): the fields in declaration order
SerEntry(e) ==
    SerString(e.id) \o SerString(e.title) \o SerOption(e.username)
        \o SerOption(e.password) \o SerOption(e.url) \o SerOption(e.note)

\* bincode::serialize(&(&entry.id, entry))
SerKeyedEntry(id, e) == SerString(id) \o SerEntry(e)

\* bincode::serialize(&(id, position)); usize is written as a u64
SerIndexEntry(id, pos) == SerString(id) \o SerU64(pos.offset) \o SerU64(pos.length)

----------------------------------------------------------------------------
(* bincode: decoding. A reader takes the buffer and the number of bytes     *)
(* already consumed and returns [ok, val, next].                            *)

Fail == [ok |-> FALSE]
Got(v, next) == [ok |-> TRUE, val |-> v, next |-> next]

\* a length no file of the model reaches: what a u64 with a high byte set decodes to
Huge == 256 * 256 * 256

\* the value of 8 little-endian bytes, saturated at Huge
DeU64(b) ==
    IF \E k \in 4..8 : b[k] # 0 THEN Huge ELSE b[1] + 256 * b[2] + 65536 * b[3]

ReadU64(buf, at) ==
    IF at + 8 > Len(buf) THEN Fail ELSE Got(DeU64(SubSeq(buf, at + 1, at + 8)), at + 8)

\* String: the length, then that many bytes, which must be UTF-8 (the model's
\* strings are ASCII: a byte of 128 or more is rejected)
ReadStringBytes(s, next) ==
    IF \E k \in 1..Len(s) : s[k] >= 128 THEN Fail ELSE Got(s, next)
ReadStringOfLen(buf, n) ==
    IF ~n.ok THEN Fail
    ELSE IF n.val > Len(buf) - n.next THEN Fail
    ELSE ReadStringBytes(SubSeq(buf, n.next + 1, n.next + n.val), n.next + n.val)
ReadString(buf, at) == ReadStringOfLen(buf, ReadU64(buf, at))

\* Option<String>: tag 0 or 1, any other tag is an error
SomeOf(s) == IF s.ok THEN Got(Some(s.val), s.next) ELSE Fail
ReadOption(buf, at) ==
    IF at + 1 > Len(buf) THEN Fail
    ELSE IF buf[at + 1] = 0 THEN Got(None, at + 1)
    ELSE IF buf[at + 1] = 1 THEN SomeOf(ReadString(buf, at + 1))
    ELSE Fail

\* the fields of a struct or tuple, read one after the other
ReadField(buf, at, kind) ==
    CASE kind = "String" -> ReadString(buf, at)
      [] kind = "Option" -> ReadOption(buf, at)
      [] kind = "U64" -> ReadU64(buf, at)
RECURSIVE ReadFields(_, _, _, _), ReadFieldsNext(_, _, _, _)
ReadFields(buf, at, kinds, got) ==
    IF kinds = <<>> THEN Got(got, at)
    ELSE ReadFieldsNext(buf, kinds, got, ReadField(buf, at, Head(kinds)))
ReadFieldsNext(buf, kinds, got, field) ==
    IF field.ok THEN ReadFields(buf, field.next, Tail(kinds), Append(got, field.val))
    ELSE Fail

EntryFields == <<"String", "String", "Option", "Option", "Option", "Option">>
EntryOf(f) ==
    [id |-> f[1], title |-> f[2], username |-> f[3],
     password |-> f[4], url |-> f[5], note |-> f[6]]

\* bincode::deserialize::<Entry>(&buf): bytes after the value are ignored
DeEntryOf(fields) == IF fields.ok THEN Got(EntryOf(fields.val), fields.next) ELSE Fail
DeEntry(buf) == DeEntryOf(ReadFields(buf, 0, EntryFields, <<>>))

\* bincode::deserialize::<(String, Entry)>(&buf)
DeKeyedEntryOf(fields) ==
    IF fields.ok
    THEN Got([id |-> fields.val[1], entry |-> EntryOf(Tail(fields.val))], fields.next)
    ELSE Fail
DeKeyedEntry(buf) == DeKeyedEntryOf(ReadFields(buf, 0, <<"String">> \o EntryFields, <<>>))

\* bincode::deserialize::<IndexEntry>(&buf)
DeIndexEntryOf(fields) ==
    IF fields.ok
    THEN Got([id |-> fields.val[1],
              position |-> [offset |-> fields.val[2], length |-> fields.val[3]]],
             fields.next)
    ELSE Fail
DeIndexEntry(buf) == DeIndexEntryOf(ReadFields(buf, 0, <<"String", "U64", "U64">>, <<>>))

----------------------------------------------------------------------------
(* Files and results *)

\* a path of the file system: absent, or present with its bytes
Absent == [exists |-> FALSE, bytes |-> <<>>]
FileOf(bytes) == [exists |-> TRUE, bytes |-> bytes]

\* Result<Option<Entry>, BinaryStoreError> and Result<Vec<Entry>, BinaryStoreError>;
\* res is "Some", "None" or "Ok", or the error variant
LoadSome(e) == [res |-> "Some", entry |-> e]
LoadNone == [res |-> "None", entry |-> NoEntry]
LoadErr(kind) == [res |-> kind, entry |-> NoEntry]
SearchOk(es) == [res |-> "Ok", entries |-> es]
SearchErr(kind) == [res |-> kind, entries |-> <<>>]

\* what a loop over records has produced, and the error that stopped it
Out(res, out) == [res |-> res, out |-> out]

----------------------------------------------------------------------------
(* binary_record_iterator.rs *)

RecordEnd == [tag |-> "End"]
RecordErr(kind) == [tag |-> "Err", kind |-> kind]

\* BinaryRecordIterator::next on the unread bytes: the end of the sequence, an
\* item with the bytes left, or an error
RecordDecoded(record, rest) ==
    IF record.ok
    THEN [tag |-> "Item", id |-> record.val.id, entry |-> record.val.entry, rest |-> rest]
    ELSE RecordErr("SerializationError")
RecordOfLen(bytes, len) ==
    IF len > Len(bytes) - 8 THEN RecordErr("IoError")
    ELSE RecordDecoded(DeKeyedEntry(SubSeq(bytes, 9, 8 + len)), Drop(bytes, 8 + len))
\* read_u64 takes 8 bytes with read_exact: on fewer, UnexpectedEof, which ends
\* the sequence. vec![0; len as usize] panics (capacity overflow) when len is
\* above isize::MAX, that is when the top bit of the length is set: the call
\* that iterates does not return, which its result carries as "Panic". An
\* allocation below that size is taken to succeed.
BinaryRecordIterator_next(bytes) ==
    IF Len(bytes) < 8 THEN RecordEnd
    ELSE IF bytes[8] >= 128 THEN RecordErr("Panic")
    ELSE RecordOfLen(bytes, DeU64(Take(bytes, 8)))

----------------------------------------------------------------------------
(* binary_index_iterator.rs *)

\* BinaryIndexIterator::next on the unread bytes
IndexRecordDecoded(record, rest) ==
    IF record.ok
    THEN [tag |-> "Item", id |-> record.val.id, position |-> record.val.position,
          rest |-> rest]
    ELSE RecordErr("SerializationError")
BinaryIndexIterator_next(bytes, record_size) ==
    IF Len(bytes) < record_size THEN RecordEnd
    ELSE IndexRecordDecoded(DeIndexEntry(Take(bytes, record_size)), Drop(bytes, record_size))

----------------------------------------------------------------------------
(* binary_file_entry_store.rs: the full-rewrite store, its pure parts *)

\* write_entry: the length-prefixed record of an entry, keyed by entry.id
LengthPrefixed(serialized) == SerU64(Len(serialized)) \o serialized
Full_write_entry(entry) == LengthPrefixed(SerKeyedEntry(entry.id, entry))

\* the second loop of move_to_new_file
RECURSIVE AppendEntries(_)
AppendEntries(entries) ==
    IF entries = <<>> THEN <<>>
    ELSE Full_write_entry(Head(entries)) \o AppendEntries(Tail(entries))

\* the first loop of move_to_new_file: what reaches the new file, and the
\* error that stopped it
RECURSIVE CopyRecords(_, _), CopyRecord(_, _)
CopyKept(written, rest) == Out(rest.res, written \o rest.out)
CopyRecord(n, deleting_keys) ==
    CASE n.tag = "End" -> Out("Ok", <<>>)
      [] n.tag = "Err" -> Out(n.kind, <<>>)
      [] n.tag = "Item" ->
            CopyKept(IF n.id \in deleting_keys THEN <<>> ELSE Full_write_entry(n.entry),
                     CopyRecords(n.rest, deleting_keys))
CopyRecords(bytes, deleting_keys) ==
    CopyRecord(BinaryRecordIterator_next(bytes), deleting_keys)

\* move_to_new_file: the result, and the file it leaves at new_file_path
MoveCopied(copied, appending_entries) ==
    IF copied.res # "Ok" THEN [res |-> copied.res, new_file |-> FileOf(copied.out)]
    ELSE [res |-> "Ok", new_file |-> FileOf(copied.out \o AppendEntries(appending_entries))]
\* a move_to_new_file that opens the new file with create and truncate
move_to_new_file_truncating(existing, new_file, deleting_keys, appending_entries) ==
    IF ~existing.exists THEN [res |-> "IoError", new_file |-> FileOf(<<>>)]
    ELSE MoveCopied(CopyRecords(existing.bytes, deleting_keys), appending_entries)
move_to_new_file(existing, new_file, deleting_keys, appending_entries) ==
    IF new_file.exists THEN [res |-> "IoError", new_file |-> new_file]
    ELSE IF ~existing.exists THEN [res |-> "IoError", new_file |-> FileOf(<<>>)]
    ELSE MoveCopied(CopyRecords(existing.bytes, deleting_keys), appending_entries)

\* load: the first record whose key is id
RECURSIVE LoadRecords(_, _), LoadRecord(_, _)
LoadRecord(n, id) ==
    CASE n.tag = "End" -> LoadNone
      [] n.tag = "Err" -> LoadErr(n.kind)
      [] n.tag = "Item" -> IF n.id = id THEN LoadSome(n.entry) ELSE LoadRecords(n.rest, id)
LoadRecords(bytes, id) == LoadRecord(BinaryRecordIterator_next(bytes), id)
Full_load(existing, id) ==
    IF existing.exists THEN LoadRecords(existing.bytes, id) ELSE LoadErr("IoError")

\* search: the records that pass, in file order
RECURSIVE SearchRecords(_, _), SearchRecord(_, _)
SearchKept(found, rest) ==
    IF rest.res # "Ok" THEN rest ELSE SearchOk(found \o rest.entries)
SearchRecord(n, filter) ==
    CASE n.tag = "End" -> SearchOk(<<>>)
      [] n.tag = "Err" -> SearchErr(n.kind)
      [] n.tag = "Item" ->
            SearchKept(IF pass(filter, n.entry) THEN <<n.entry>> ELSE <<>>,
                       SearchRecords(n.rest, filter))
SearchRecords(bytes, filter) == SearchRecord(BinaryRecordIterator_next(bytes), filter)
Full_search(existing, filter) ==
    IF existing.exists THEN SearchRecords(existing.bytes, filter) ELSE SearchErr("IoError")

\* the number of records the iterator yields before it stops
RECURSIVE CountRecords(_), CountRecord(_)
CountRecord(n) == IF n.tag = "Item" THEN 1 + CountRecords(n.rest) ELSE 0
CountRecords(bytes) == CountRecord(BinaryRecordIterator_next(bytes))

----------------------------------------------------------------------------
(* indexed_binary_file_entry_store.rs: the indexed store, its pure parts *)

INDEX_RECORD_SIZE == 52

\* Position
Position(offset, length) == [offset |-> offset, length |-> length]

\* HashMap<String, Position> as a function from the ids it holds
EmptyIndex == [id \in {} |-> Position(0, 0)]
IndexInsert(index, id, position) ==
    [k \in DOMAIN index \cup {id} |-> IF k = id THEN position ELSE index[k]]
\* a remove that empties the map
IndexRemove_cleared(index, id) == EmptyIndex
IndexRemove(index, id) == [k \in DOMAIN index \ {id} |-> index[k]]

\* the loop of write_index: the slots written for the ids in the order the
\* map yields them, up to the first record longer than a slot
RECURSIVE WriteSlots(_, _), WriteSlot(_, _, _)
SlotWritten(record, rest) == Out(rest.res, record \o rest.out)
\* a write_index that writes each record without the zeros that fill its slot
WriteSlot_unpadded(serialized, index, order) ==
    IF Len(serialized) > INDEX_RECORD_SIZE THEN Out("IndexRecordTooLarge", <<>>)
    ELSE SlotWritten(serialized, WriteSlots(index, order))
\* a write_index that cuts a record longer than a slot down to the slot
WriteSlot_truncated(serialized, index, order) ==
    SlotWritten(Take(serialized \o Zeros(INDEX_RECORD_SIZE - Len(serialized)),
                     INDEX_RECORD_SIZE),
                WriteSlots(index, order))
WriteSlot(serialized, index, order) ==
    IF Len(serialized) > INDEX_RECORD_SIZE THEN Out("IndexRecordTooLarge", <<>>)
    ELSE SlotWritten(serialized \o Zeros(INDEX_RECORD_SIZE - Len(serialized)),
                     WriteSlots(index, order))
WriteSlots(index, order) ==
    IF order = <<>> THEN Out("Ok", <<>>)
    ELSE WriteSlot(SerIndexEntry(Head(order), index[Head(order)]), index, Tail(order))

\* write_index: the result, and the file it leaves at index_file (created or
\* truncated, then written slot by slot)
IndexWritten(w) == [res |-> w.res, file |-> FileOf(w.out)]
write_index(index, order) == IndexWritten(WriteSlots(index, order))

\* the loop of load_index: a later record replaces an earlier one of the same id
RECURSIVE ReadSlots(_, _), ReadSlot(_, _)
ReadSlot(n, result) ==
    CASE n.tag = "End" -> [res |-> "Ok", index |-> result]
      [] n.tag = "Err" -> [res |-> n.kind, index |-> result]
      [] n.tag = "Item" -> ReadSlots(n.rest, IndexInsert(result, n.id, n.position))
ReadSlots(bytes, result) == ReadSlot(BinaryIndexIterator_next(bytes, INDEX_RECORD_SIZE), result)

load_index(index_file) ==
    IF ~index_file.exists THEN [res |-> "IoError", index |-> EmptyIndex]
    ELSE ReadSlots(index_file.bytes, EmptyIndex)

\* get: seek to the offset, read exactly length bytes, decode an Entry
GetDecoded(entry) ==
    IF entry.ok THEN LoadSome(entry.val) ELSE LoadErr("SerializationError")
get(data, position) ==
    IF ~data.exists THEN LoadErr("IoError")
    ELSE IF position.length > 0 /\ position.offset + position.length > Len(data.bytes)
    THEN LoadErr("IoError")
    ELSE GetDecoded(DeEntry(IF position.length = 0 THEN <<>>
                            ELSE SubSeq(data.bytes, position.offset + 1,
                                        position.offset + position.length)))

\* a write_entry into a file that save has truncated on opening
AppendSerialized_truncating(serialized, bytes) ==
    [pos |-> Position(0, Len(serialized)), bytes |-> serialized]

\* a write_entry that takes the offset before seeking to the end of the file
AppendSerialized_offsetAtStart(serialized, bytes) ==
    [pos |-> Position(0, Len(serialized)), bytes |-> bytes \o serialized]

\* write_entry: the Position of the value appended to a file that holds bytes,
\* and the bytes the file holds then
AppendSerialized(serialized, bytes) ==
    [pos |-> Position(Len(bytes), Len(serialized)), bytes |-> bytes \o serialized]
Idx_write_entry(value, bytes) == AppendSerialized(SerEntry(value), bytes)

\* the loop of write_data: every indexed entry is read from the data file and
\* appended to the new file, in the order the map yields the ids
RECURSIVE CompactEntries(_, _, _, _, _), CompactEntry(_, _, _, _, _, _), CompactWritten(_, _, _, _, _)
CompactEntries(data, index, order, new_bytes, new_index) ==
    IF order = <<>> THEN [res |-> "Ok", bytes |-> new_bytes, index |-> new_index]
    ELSE CompactEntry(data, index, order, new_bytes, new_index, get(data, index[Head(order)]))
CompactEntry(data, index, order, new_bytes, new_index, entry) ==
    IF entry.res # "Some" THEN [res |-> entry.res, bytes |-> new_bytes, index |-> new_index]
    ELSE CompactWritten(data, index, order, new_index, Idx_write_entry(entry.entry, new_bytes))
\* a write_data that records every copied entry at the start of the new file
CompactWritten_offsetAtStart(data, index, order, new_index, w) ==
    CompactEntries(data, index, Tail(order), w.bytes,
                   IndexInsert(new_index, Head(order), Position(0, w.pos.length)))
CompactWritten(data, index, order, new_index, w) ==
    CompactEntries(data, index, Tail(order), w.bytes, IndexInsert(new_index, Head(order), w.pos))

\* load
Idx_load(data, index, key) ==
    IF key \in DOMAIN index THEN get(data, index[key]) ELSE LoadNone

\* a search that sorts the index entries by descending offset
SortedByOffset_descending(index) ==
    {s \in Perms(DOMAIN index) :
        \A a, b \in 1..Len(s) : a < b => index[s[a]].offset >= index[s[b]].offset}

\* sort_by_key(offset) of the index entries: the orders a sort by offset can give
SortedByOffset(index) ==
    {s \in Perms(DOMAIN index) :
        \A a, b \in 1..Len(s) : a < b => index[s[a]].offset <= index[s[b]].offset}

\* the loop of search over the sorted index entries
RECURSIVE SearchEntries(_, _, _, _), SearchEntry(_, _, _, _, _)
SearchEntries(data, index, sorted, filter) ==
    IF sorted = <<>> THEN SearchOk(<<>>)
    ELSE SearchEntry(data, index, sorted, filter, get(data, index[Head(sorted)]))
SearchEntry(data, index, sorted, filter, entry) ==
    IF entry.res # "Some" THEN SearchErr(entry.res)
    ELSE SearchKept(IF pass(filter, entry.entry) THEN <<entry.entry>> ELSE <<>>,
                    SearchEntries(data, index, Tail(sorted), filter))

\* search: the results it can return, one per order the sort can give
Idx_search(data, index, filter) ==
    IF ~data.exists THEN {SearchErr("IoError")}
    ELSE {SearchEntries(data, index, sorted, filter) : sorted \in SortedByOffset(index)}

\* the number of entry payloads at the start of a data file of the indexed store
RECURSIVE CountPayloads(_), CountPayload(_, _)
CountPayload(bytes, entry) ==
    IF entry.ok THEN 1 + CountPayloads(Drop(bytes, entry.next)) ELSE 0
CountPayloads(bytes) == IF bytes = <<>> THEN 0 ELSE CountPayload(bytes, DeEntry(bytes))

----------------------------------------------------------------------------
(* State *)

VARIABLES
    engine,               \* which store this run drives: "full" or "indexed"
    file,                 \* full-rewrite store: the file at file_path
    file_tmp,             \* full-rewrite store: the file at "<file_path>-tmp"
    data_file,            \* indexed store: the file at data_file_path
    index_file,           \* indexed store: the file at index_file_path
    index,                \* per instance: the in-memory HashMap<String, Position>
    needs_index_rewrite,  \* per instance
    needs_data_rewrite,   \* per instance
    last,                 \* the last call and its result; of a save or delete made
                          \* step by step, the step reached and the arguments
    live,                 \* history: the (id, value) pairs saved and not deleted
                          \* since, in the order of their last save, and the ids
                          \* deleted and not saved since; kept while the
                          \* store has seen save, delete, rewrite_index and
                          \* write_data only (tracked), dropped at the first
                          \* reload_index or new
    compacted,            \* history: what load returned before the last write_data,
                          \* and whether rewrite_index followed it
    persisted             \* history: the ids saved through instance A since its last
                          \* rewrite_index, and the ids any rewrite_index has written

fullVars == <<file, file_tmp>>
diskVars == <<data_file, index_file>>
storeVars == <<engine, file, file_tmp, data_file, index_file,
               index, needs_index_rewrite, needs_data_rewrite, last>>
vars == <<engine, file, file_tmp, data_file, index_file,
          index, needs_index_rewrite, needs_data_rewrite, last, live, compacted, persisted>>

\* the instances of the indexed store that can be open over the one file pair
Instances == {"A", "B"}

Call(op, res) == [op |-> op, res |-> res]

\* the history of live values after a save or a delete
RECURSIVE Without(_, _)
Without(pairs, id) ==
    IF pairs = <<>> THEN <<>>
    ELSE (IF Head(pairs).id = id THEN <<>> ELSE <<Head(pairs)>>) \o Without(Tail(pairs), id)
Tracked(pairs, deleted) == [tracked |-> TRUE, pairs |-> pairs, deleted |-> deleted]
Untracked == [tracked |-> FALSE, pairs |-> <<>>, deleted |-> {}]
LiveAfterSave(id, value) ==
    IF live.tracked
    THEN Tracked(Without(live.pairs, id) \o <<[id |-> id, entry |-> value]>>,
                 live.deleted \ {id})
    ELSE live
LiveAfterDelete(id) ==
    IF live.tracked THEN Tracked(Without(live.pairs, id), live.deleted \cup {id}) ELSE live
LiveIds == {live.pairs[k].id : k \in 1..Len(live.pairs)}
LiveEntry(id) == live.pairs[CHOOSE k \in 1..Len(live.pairs) : live.pairs[k].id = id].entry
NotCompacted == [phase |-> "none", loads |-> <<>>, index_file |-> Absent]
NothingPersisted == [unsaved |-> {}, ever |-> {}]

\* the state after BinaryFileEntryStore::new or IndexedBinaryFileEntryStore::new
\* over paths where no file exists
Init ==
    /\ engine \in {"full", "indexed"}
    /\ file = IF engine = "full" THEN FileOf(<<>>) ELSE Absent
    /\ file_tmp = Absent
    /\ data_file = IF engine = "indexed" THEN FileOf(<<>>) ELSE Absent
    /\ index_file = IF engine = "indexed" THEN FileOf(<<>>) ELSE Absent
    /\ index = [i \in Instances |-> EmptyIndex]
    /\ needs_index_rewrite = [i \in Instances |-> FALSE]
    /\ needs_data_rewrite = [i \in Instances |-> FALSE]
    /\ last = Call("new", "Ok")
    /\ live = Tracked(<<>>, {})
    /\ compacted = NotCompacted
    /\ persisted = NothingPersisted

----------------------------------------------------------------------------
(* binary_file_entry_store.rs: save and delete *)

\* what save and delete do with the result of move_to_new_file: on Ok,
\* remove_file and rename
Full_swap(op, m) ==
    /\ IF m.res = "Ok"
       THEN /\ file' = m.new_file
            /\ file_tmp' = Absent
       ELSE /\ file' = file
            /\ file_tmp' = m.new_file
    /\ last' = Call(op, m.res)
    /\ UNCHANGED <<engine, diskVars, index, needs_index_rewrite, needs_data_rewrite>>

Full_save(id, value) ==
    /\ engine = "full"
    /\ Full_swap("save", move_to_new_file(file, file_tmp, {id}, <<value>>))

Full_delete(id) ==
    /\ engine = "full"
    /\ Full_swap("delete", move_to_new_file(file, file_tmp, {id}, <<>>))

----------------------------------------------------------------------------
(* indexed_binary_file_entry_store.rs: the operations *)

\* an update_index_entry that leaves the flag as it is
update_index_entry_flagKept(i, id, position) ==
    /\ index' = [index EXCEPT ![i] = IndexInsert(index[i], id, position)]
    /\ UNCHANGED needs_index_rewrite

\* update_index_entry
update_index_entry(i, id, position) ==
    /\ index' = [index EXCEPT ![i] = IndexInsert(index[i], id, position)]
    /\ needs_index_rewrite' = [needs_index_rewrite EXCEPT ![i] = TRUE]

SaveWritten(i, id, w) ==
    /\ data_file' = FileOf(w.bytes)
    /\ update_index_entry(i, id, w.pos)

\* a save that records a Position for the id although the data file could not
\* be opened
Idx_save_indexOnError(i, id, value) ==
    /\ engine = "indexed"
    /\ IF data_file.exists
       THEN /\ SaveWritten(i, id, Idx_write_entry(value, data_file.bytes))
            /\ last' = Call("save", "Ok")
       ELSE /\ UNCHANGED data_file
            /\ update_index_entry(i, id, Position(0, Len(SerEntry(value))))
            /\ last' = Call("save", "IoError")
    /\ UNCHANGED <<engine, fullVars, index_file, needs_data_rewrite>>

\* a save that sets needs_data_rewrite when it replaces the Position of an id
Idx_save_dataFlagSet(i, id, value) ==
    /\ engine = "indexed"
    /\ IF data_file.exists
       THEN /\ SaveWritten(i, id, Idx_write_entry(value, data_file.bytes))
            /\ needs_data_rewrite' =
                    [needs_data_rewrite EXCEPT ![i] = @ \/ id \in DOMAIN index[i]]
            /\ last' = Call("save", "Ok")
       ELSE /\ UNCHANGED <<data_file, index, needs_index_rewrite, needs_data_rewrite>>
            /\ last' = Call("save", "IoError")
    /\ UNCHANGED <<engine, fullVars, index_file>>

\* save
Idx_save(i, id, value) ==
    /\ engine = "indexed"
    /\ IF data_file.exists
       THEN /\ SaveWritten(i, id, Idx_write_entry(value, data_file.bytes))
            /\ last' = Call("save", "Ok")
       ELSE /\ UNCHANGED <<data_file, index, needs_index_rewrite>>
            /\ last' = Call("save", "IoError")
    /\ UNCHANGED <<engine, fullVars, index_file, needs_data_rewrite>>

\* a delete that removes the id and leaves the flag as it is
Idx_delete_flagKept(i, id) ==
    /\ engine = "indexed"
    /\ index' = [index EXCEPT ![i] = IndexRemove(index[i], id)]
    /\ last' = Call("delete", "Ok")
    /\ UNCHANGED <<engine, fullVars, diskVars, needs_index_rewrite, needs_data_rewrite>>

\* delete
Idx_delete(i, id) ==
    /\ engine = "indexed"
    /\ index' = [index EXCEPT ![i] = IndexRemove(index[i], id)]
    /\ needs_data_rewrite' = [needs_data_rewrite EXCEPT ![i] = TRUE]
    /\ last' = Call("delete", "Ok")
    /\ UNCHANGED <<engine, fullVars, diskVars, needs_index_rewrite>>

\* a reload_index that leaves the in-memory index as it is
Reloaded_indexKept(i, loaded) ==
    /\ UNCHANGED index
    /\ last' = Call("reload_index", loaded.res)

\* a reload_index that adds the loaded map to the in-memory index
Reloaded_merged(i, loaded) ==
    /\ index' = IF loaded.res = "Ok"
                THEN [index EXCEPT ![i] =
                        [id \in DOMAIN index[i] \cup DOMAIN loaded.index |->
                            IF id \in DOMAIN loaded.index THEN loaded.index[id]
                            ELSE index[i][id]]]
                ELSE index
    /\ last' = Call("reload_index", loaded.res)

\* a reload_index that empties the in-memory index when load_index fails
Reloaded_clearedOnError(i, loaded) ==
    /\ index' = [index EXCEPT ![i] = IF loaded.res = "Ok" THEN loaded.index ELSE EmptyIndex]
    /\ last' = Call("reload_index", loaded.res)

\* reload_index after load_index: Ok(map) replaces the index, Err is logged
Reloaded(i, loaded) ==
    /\ index' = IF loaded.res = "Ok" THEN [index EXCEPT ![i] = loaded.index] ELSE index
    /\ last' = Call("reload_index", loaded.res)

reload_index(i) ==
    /\ engine = "indexed"
    /\ Reloaded(i, load_index(index_file))
    /\ UNCHANGED <<engine, fullVars, diskVars, needs_index_rewrite, needs_data_rewrite>>

\* the temp_ files that rewrite_index and write_data write are opened with
\* create and truncate and never read: they are not part of the state
\* a rewrite_index that leaves the new index in the temp_ file
IndexSwapped_notRenamed(i, w) ==
    /\ UNCHANGED index_file
    /\ needs_index_rewrite' = [needs_index_rewrite EXCEPT ![i] = FALSE]
    /\ last' = Call("rewrite_index", w.res)

\* a rewrite_index that clears the flag whether or not it succeeds
IndexSwapped_flagCleared(i, w) ==
    /\ needs_index_rewrite' = [needs_index_rewrite EXCEPT ![i] = FALSE]
    /\ IF w.res = "Ok" /\ index_file.exists
       THEN /\ index_file' = w.file
            /\ last' = Call("rewrite_index", "Ok")
       ELSE /\ UNCHANGED index_file
            /\ last' = Call("rewrite_index", IF w.res = "Ok" THEN "IoError" ELSE w.res)

\* a rewrite_index that renames the new index file and leaves the flag as it is
IndexSwapped_flagKept(i, w) ==
    IF w.res = "Ok" /\ index_file.exists
    THEN /\ index_file' = w.file
         /\ UNCHANGED needs_index_rewrite
         /\ last' = Call("rewrite_index", "Ok")
    ELSE /\ UNCHANGED <<index_file, needs_index_rewrite>>
         /\ last' = Call("rewrite_index", IF w.res = "Ok" THEN "IoError" ELSE w.res)

\* rewrite_index after write_index: on Ok, remove_file and rename, then the flag
IndexSwapped(i, w) ==
    IF w.res = "Ok" /\ index_file.exists
    THEN /\ index_file' = w.file
         /\ needs_index_rewrite' = [needs_index_rewrite EXCEPT ![i] = FALSE]
         /\ last' = Call("rewrite_index", "Ok")
    ELSE /\ UNCHANGED <<index_file, needs_index_rewrite>>
         /\ last' = Call("rewrite_index", IF w.res = "Ok" THEN "IoError" ELSE w.res)

rewrite_index(i) ==
    /\ engine = "indexed"
    /\ \E order \in Perms(DOMAIN index[i]) : IndexSwapped(i, write_index(index[i], order))
    /\ UNCHANGED <<engine, fullVars, data_file, index, needs_data_rewrite>>

\* a write_data that swaps the data file and leaves the flag as it is
DataSwapped_flagKept(i, c) ==
    IF c.res # "Ok"
    THEN /\ UNCHANGED <<data_file, index, needs_data_rewrite>>
         /\ last' = Call("write_data", c.res)
    ELSE /\ index' = [index EXCEPT ![i] = c.index]
         /\ UNCHANGED needs_data_rewrite
         /\ IF data_file.exists
            THEN /\ data_file' = FileOf(c.bytes)
                 /\ last' = Call("write_data", "Ok")
            ELSE /\ UNCHANGED data_file
                 /\ last' = Call("write_data", "IoError")

\* write_data after its loop: the new index, then remove_file and rename, then
\* the flag
DataSwapped(i, c) ==
    IF c.res # "Ok"
    THEN /\ UNCHANGED <<data_file, index, needs_data_rewrite>>
         /\ last' = Call("write_data", c.res)
    ELSE /\ index' = [index EXCEPT ![i] = c.index]
         /\ IF data_file.exists
            THEN /\ data_file' = FileOf(c.bytes)
                 /\ needs_data_rewrite' = [needs_data_rewrite EXCEPT ![i] = FALSE]
                 /\ last' = Call("write_data", "Ok")
            ELSE /\ UNCHANGED <<data_file, needs_data_rewrite>>
                 /\ last' = Call("write_data", "IoError")

\* a write_data whose new file starts as a copy of the data file
write_data_notTruncated(i) ==
    /\ engine = "indexed"
    /\ \E order \in Perms(DOMAIN index[i]) :
          DataSwapped(i, CompactEntries(data_file, index[i], order, data_file.bytes, EmptyIndex))
    /\ UNCHANGED <<engine, fullVars, index_file, needs_index_rewrite>>

\* a write_data that marks the index for rewriting
write_data_indexFlagSet(i) ==
    /\ engine = "indexed"
    /\ \E order \in Perms(DOMAIN index[i]) :
          DataSwapped(i, CompactEntries(data_file, index[i], order, <<>>, EmptyIndex))
    /\ needs_index_rewrite' = [needs_index_rewrite EXCEPT ![i] = TRUE]
    /\ UNCHANGED <<engine, fullVars, index_file>>

\* write_data
write_data(i) ==
    /\ engine = "indexed"
    /\ \E order \in Perms(DOMAIN index[i]) :
          DataSwapped(i, CompactEntries(data_file, index[i], order, <<>>, EmptyIndex))
    /\ UNCHANGED <<engine, fullVars, index_file, needs_index_rewrite>>

\* write_data when the file system refuses one of its steps: the open of the
\* temp file, before anything is done; remove_file or rename, after the loop
\* and after self.index = new_index
SwapSteps == {"open", "remove_file", "rename"}
DataSwapRefused(i, c, step) ==
    /\ step # "open" => c.res = "Ok"
    /\ index' = IF step = "open" THEN index ELSE [index EXCEPT ![i] = c.index]
    /\ data_file' = IF step = "rename" THEN Absent ELSE data_file
    /\ last' = Call("write_data", "IoError")
write_data_refused(i, step) ==
    /\ engine = "indexed"
    /\ data_file.exists
    /\ \E order \in Perms(DOMAIN index[i]) :
          DataSwapRefused(i, CompactEntries(data_file, index[i], order, <<>>, EmptyIndex), step)
    /\ UNCHANGED <<engine, fullVars, index_file, needs_index_rewrite, needs_data_rewrite>>

\* a new that fills the index from the index file
Idx_new_indexLoaded(i) ==
    /\ engine = "indexed"
    /\ data_file' = IF data_file.exists THEN data_file ELSE FileOf(<<>>)
    /\ index_file' = IF index_file.exists THEN index_file ELSE FileOf(<<>>)
    /\ index' = [index EXCEPT ![i] = load_index(index_file).index]
    /\ needs_index_rewrite' = [needs_index_rewrite EXCEPT ![i] = FALSE]
    /\ needs_data_rewrite' = [needs_data_rewrite EXCEPT ![i] = FALSE]
    /\ last' = Call("new", "Ok")
    /\ UNCHANGED <<engine, fullVars>>

\* new over the files as they are: a missing file is created empty (a file
\* that File::create fails to create is a file removed right after new)
Idx_new(i) ==
    /\ engine = "indexed"
    /\ data_file' = IF data_file.exists THEN data_file ELSE FileOf(<<>>)
    /\ index_file' = IF index_file.exists THEN index_file ELSE FileOf(<<>>)
    /\ index' = [index EXCEPT ![i] = EmptyIndex]
    /\ needs_index_rewrite' = [needs_index_rewrite EXCEPT ![i] = FALSE]
    /\ needs_data_rewrite' = [needs_data_rewrite EXCEPT ![i] = FALSE]
    /\ last' = Call("new", "Ok")
    /\ UNCHANGED <<engine, fullVars>>

\* the files of the indexed store are removed from outside the store: new finds
\* each of them existing or not (file_exists)
RemoveDataFile ==
    /\ engine = "indexed"
    /\ data_file.exists
    /\ data_file' = Absent
    /\ last' = Call("remove data file", "Ok")
    /\ UNCHANGED <<engine, fullVars, index_file, index, needs_index_rewrite, needs_data_rewrite>>

RemoveIndexFile ==
    /\ engine = "indexed"
    /\ index_file.exists
    /\ index_file' = Absent
    /\ last' = Call("remove index file", "Ok")
    /\ UNCHANGED <<engine, fullVars, data_file, index, needs_index_rewrite, needs_data_rewrite>>

----------------------------------------------------------------------------
(* The calls that read a store, on the store as it is *)

\* what load and search read: the files, and the index of instance i of the
\* indexed store
Store(i) ==
    [engine |-> engine, file |-> file, data_file |-> data_file, index |-> index[i]]

\* DataStore::load on the engine of this run
LoadOf(store, id) ==
    IF store.engine = "full" THEN Full_load(store.file, id)
    ELSE Idx_load(store.data_file, store.index, id)
Load(i, id) == LoadOf(Store(i), id)

\* DataStore::search: the results it can return (one for each order sort_by_key
\* can leave entries of equal offset in)
SearchOf(store, filter) ==
    IF store.engine = "full" THEN {Full_search(store.file, filter)}
    ELSE Idx_search(store.data_file, store.index, filter)
Search(i, filter) == SearchOf(Store(i), filter)

----------------------------------------------------------------------------
(* The history a call leaves *)

\* what load returns before a successful write_data and the index file as it is
\* then; persisted once a rewrite_index succeeded right after it, and kept from
\* then on while only reload_index and new follow
Compacting ==
    [phase |-> "written", loads |-> [id \in Ids |-> Load("A", id)],
     index_file |-> index_file]
CompactedAfter(op) ==
    CASE op = "write_data" -> IF last'.res = "Ok" THEN Compacting ELSE NotCompacted
      [] op = "rewrite_index" ->
            IF compacted.phase # "written" THEN NotCompacted
            ELSE IF last'.res = "Ok" THEN [compacted EXCEPT !.phase = "persisted"]
            ELSE compacted
      [] op \in {"reload_index", "new"} ->
            IF compacted.phase = "persisted" THEN compacted ELSE NotCompacted
      [] OTHER -> NotCompacted

\* the history of one instance
Saved(id, value) ==
    /\ live' = IF last'.res = "Ok" THEN LiveAfterSave(id, value) ELSE live
    /\ compacted' = CompactedAfter("save")
    /\ UNCHANGED persisted
Deleted(id) ==
    /\ live' = IF last'.res = "Ok" THEN LiveAfterDelete(id) ELSE live
    /\ compacted' = CompactedAfter("delete")
    /\ UNCHANGED persisted
Forgot(op) ==
    /\ live' = Untracked
    /\ compacted' = CompactedAfter(op)
    /\ UNCHANGED persisted
Kept(op) ==
    /\ compacted' = CompactedAfter(op)
    /\ UNCHANGED <<live, persisted>>

----------------------------------------------------------------------------
(* The specifications *)

\* the calls of the DataStore contract that change a store, on either engine,
\* with any id and any entry
SaveDelete(max) ==
    \/ \E id \in Ids, value \in Entries :
          /\ CountRecords(file.bytes) < max
          /\ Full_save(id, value)
          /\ Saved(id, value)
    \/ \E id \in Ids : Full_delete(id) /\ Deleted(id)
    \/ \E id \in Ids, value \in Entries :
          /\ CountPayloads(data_file.bytes) < max
          /\ Idx_save("A", id, value)
          /\ Saved(id, value)
    \/ \E id \in Ids : Idx_delete("A", id) /\ Deleted(id)

\* one store driven by any sequence of save and delete
NextSaveDelete == SaveDelete(MaxSaved)

SpecSaveDelete == Init /\ [][NextSaveDelete]_vars

\* one store driven by any sequence of calls
Next ==
    \/ SaveDelete(MaxRecords)
    \/ reload_index("A") /\ Forgot("reload_index")
    \/ rewrite_index("A") /\ Kept("rewrite_index")
    \/ write_data("A") /\ Kept("write_data")
    \/ Idx_new("A") /\ Forgot("new")

Spec == Init /\ [][Next]_vars

\* two instances of the indexed store over one file pair: A saves, deletes and
\* rewrites the index file, B is opened and reloads its index at any time. The
\* history is that of A's calls: the ids saved through A since its last
\* successful rewrite_index (unsaved), and the ids a rewrite_index ever wrote.
PersistedAfter(op, id) ==
    CASE last'.res # "Ok" -> persisted
      [] op = "save" -> [persisted EXCEPT !.unsaved = @ \cup {id}]
      [] op = "delete" -> [persisted EXCEPT !.unsaved = @ \ {id}]
      [] op = "rewrite_index" ->
            [unsaved |-> {}, ever |-> persisted.ever \cup DOMAIN index["A"]]
      [] OTHER -> persisted

InitTwo == Init /\ engine = "indexed"

NextTwo ==
    \/ \E id \in Ids, value \in Entries :
          /\ CountPayloads(data_file.bytes) < MaxRecords
          /\ Idx_save("A", id, value)
          /\ live' = LiveAfterSave(id, value)
          /\ persisted' = PersistedAfter("save", id)
          /\ UNCHANGED compacted
    \/ \E id \in Ids :
          /\ Idx_delete("A", id)
          /\ live' = LiveAfterDelete(id)
          /\ persisted' = PersistedAfter("delete", id)
          /\ UNCHANGED compacted
    \/ /\ rewrite_index("A")
       /\ persisted' = PersistedAfter("rewrite_index", Id1)
       /\ UNCHANGED <<live, compacted>>
    \/ reload_index("B") /\ UNCHANGED <<live, compacted, persisted>>
    \/ Idx_new("B") /\ UNCHANGED <<live, compacted, persisted>>

SpecTwo == InitTwo /\ [][NextTwo]_vars

\* one instance of the indexed store, driven by save, delete, reload_index,
\* rewrite_index and new, over files that can be removed from outside at any
\* time; no history is kept
NoHistory ==
    /\ live' = Untracked
    /\ compacted' = NotCompacted
    /\ UNCHANGED persisted

NextFiles ==
    \/ \E id \in Ids, value \in Entries :
          /\ CountPayloads(data_file.bytes) < MaxRecords
          /\ Idx_save("A", id, value)
          /\ NoHistory
    \/ \E id \in Ids : Idx_delete("A", id) /\ NoHistory
    \/ reload_index("A") /\ NoHistory
    \/ rewrite_index("A") /\ NoHistory
    \/ Idx_new("A") /\ NoHistory
    \/ RemoveDataFile /\ NoHistory
    \/ RemoveIndexFile /\ NoHistory

SpecFiles == InitTwo /\ [][NextFiles]_vars


\* one instance of the indexed store, driven by any sequence of calls over files
\* that can be removed from outside, whose ids are long strings: the longest id
\* whose index record fits a slot (28 bytes: 8 + 28 + 8 + 8 = 52), the shortest
\* one whose record does not (29 bytes), and a UUID in its canonical 36-character
\* form ("12345678-0123-4678-8123-567890123456")
IdFits == [k \in 1..28 |-> 97]
IdTooLong == [k \in 1..29 |-> 97]
IdUuid == [k \in 1..36 |-> CASE k \in {9, 14, 19, 24} -> 45
                              [] k = 15 -> 52
                              [] k = 20 -> 56
                              [] OTHER -> 48 + (k % 10)]
SlotIds == {IdFits, IdTooLong, IdUuid}

\* under SpecSlots, save is not called once the data file holds this many payloads
MaxSlotSaves == 2

NextSlots ==
    \/ \E id \in SlotIds :
          /\ CountPayloads(data_file.bytes) < MaxSlotSaves
          /\ Idx_save("A", id, Entry(id, <<65>>, None))
          /\ NoHistory
    \/ \E id \in SlotIds : Idx_delete("A", id) /\ NoHistory
    \/ reload_index("A") /\ NoHistory
    \/ rewrite_index("A") /\ NoHistory
    \/ write_data("A") /\ NoHistory
    \/ Idx_new("A") /\ NoHistory
    \/ RemoveDataFile /\ NoHistory
    \/ RemoveIndexFile /\ NoHistory

SpecSlots == InitTwo /\ [][NextSlots]_vars

\* a full-rewrite store opened over a file that exists already: two records
\* written by the store, cut off after any number of bytes, or one record
\* followed by a length prefix that no payload of the file can fill (a length
\* of 2^24, a length of 2^63, a length of 2^64 - 1) and some bytes of payload
TwoRecords == Full_write_entry(E1a) \o Full_write_entry(E2a)
LongLengths == {<<0, 0, 0, 1, 0, 0, 0, 0>>, <<0, 0, 0, 0, 0, 0, 0, 128>>,
                <<255, 255, 255, 255, 255, 255, 255, 255>>}
Streams ==
    {Take(TwoRecords, n) : n \in 0..Len(TwoRecords)}
        \cup {Full_write_entry(E1a) \o len \o Take(SerEntry(E2a), n) :
                len \in LongLengths, n \in {0, 1}}

InitRecords ==
    /\ engine = "full"
    /\ file \in {FileOf(bytes) : bytes \in Streams}
    /\ file_tmp = Absent
    /\ data_file = Absent
    /\ index_file = Absent
    /\ index = [i \in Instances |-> EmptyIndex]
    /\ needs_index_rewrite = [i \in Instances |-> FALSE]
    /\ needs_data_rewrite = [i \in Instances |-> FALSE]
    /\ last = Call("new", "Ok")
    /\ live = Untracked
    /\ compacted = NotCompacted
    /\ persisted = NothingPersisted

NextRecords ==
    \/ \E id \in Ids, value \in Entries :
          /\ CountRecords(file.bytes) < MaxRecords
          /\ Full_save(id, value)
          /\ NoHistory
    \/ \E id \in Ids : Full_delete(id) /\ NoHistory

SpecRecords == InitRecords /\ [][NextRecords]_vars

\* an indexed store opened over an empty data file and an index file that
\* exists already: the two slots a rewrite_index wrote, cut off after any
\* number of bytes, or with a slot that does not decode (an id length of 255,
\* in the first slot or in the second, or an id byte that is not UTF-8)
TwoSlots ==
    write_index(IndexInsert(IndexInsert(EmptyIndex, Id1, Position(0, 22)), Id2, Position(22, 22)),
                <<Id1, Id2>>).file.bytes
Corrupted(bytes, at, byte) == [k \in 1..Len(bytes) |-> IF k = at THEN byte ELSE bytes[k]]
IndexStreams ==
    {Take(TwoSlots, n) : n \in 0..Len(TwoSlots)}
        \cup {Corrupted(TwoSlots, 1, 255), Corrupted(TwoSlots, INDEX_RECORD_SIZE + 1, 255),
              Corrupted(TwoSlots, 9, 200)}

InitIndexFile ==
    /\ engine = "indexed"
    /\ file = Absent
    /\ file_tmp = Absent
    /\ data_file = FileOf(<<>>)
    /\ index_file \in {FileOf(bytes) : bytes \in IndexStreams}
    /\ index = [i \in Instances |-> EmptyIndex]
    /\ needs_index_rewrite = [i \in Instances |-> FALSE]
    /\ needs_data_rewrite = [i \in Instances |-> FALSE]
    /\ last = Call("new", "Ok")
    /\ live = Untracked
    /\ compacted = NotCompacted
    /\ persisted = NothingPersisted

\* under SpecIndexFile, save is not called once the data file holds this many payloads
MaxIndexFileSaves == 1

NextIndexFile ==
    \/ \E id \in Ids, value \in Entries :
          /\ CountPayloads(data_file.bytes) < MaxIndexFileSaves
          /\ Idx_save("A", id, value)
          /\ NoHistory
    \/ \E id \in Ids : Idx_delete("A", id) /\ NoHistory
    \/ reload_index("A") /\ NoHistory
    \/ rewrite_index("A") /\ NoHistory
    \/ RemoveIndexFile /\ NoHistory

SpecIndexFile == InitIndexFile /\ [][NextIndexFile]_vars
----------------------------------------------------------------------------
(* The storage contract (spec 8, testable properties) *)

\* the pair the last successful save left at the end of the history
LastSaved == live.pairs[Len(live.pairs)]

\* C1 (round-trip, both engines): right after a successful save(e.id, e),
\* load(e.id) returns Some(e), whatever successful save and delete calls came
\* before it.
C1_RoundTrip ==
    (last = Call("save", "Ok") /\ LastSaved.id = LastSaved.entry.id)
        => Load("A", LastSaved.id) = LoadSome(LastSaved.entry)

\* the case of C1: a save(e.id, e) after a save under another id, loaded back
C1_Witness ==
    /\ last = Call("save", "Ok")
    /\ Len(live.pairs) = 2
    /\ LastSaved.id = LastSaved.entry.id
    /\ live.pairs[1].entry.id = LastSaved.id
    /\ Load("A", LastSaved.id) = LoadSome(LastSaved.entry)

\* how often an entry occurs in a search result
Count(entries, e) == Cardinality({k \in 1..Len(entries) : entries[k] = e})
\* the live values in the order of their last save, and those a filter passes
LiveEntries == [k \in 1..Len(live.pairs) |-> live.pairs[k].entry]
Passing(entries, filter) == SelectSeq(entries, LAMBDA e : pass(filter, e))
SameEntries(found, expected) ==
    /\ Len(found) = Len(expected)
    /\ \A k \in 1..Len(found) : Count(found, found[k]) = Count(expected, found[k])

\* C2 (upsert, both engines): when a successful save(id, e1) is followed by a
\* successful save(id, e2), load(id) returns Some(e2), and a match-all search
\* holds e2 (and e1) exactly as often as an id holds it as its latest value:
\* once for this id, and no e1 left from it.
C2_Upsert ==
    [][(last = Call("save", "Ok") /\ last' = Call("save", "Ok")
            /\ LastSaved'.id = LastSaved.id)
        => /\ LoadOf(Store("A")', LastSaved.id) = LoadSome(LastSaved'.entry)
           /\ \A r \in SearchOf(Store("A")', "MatchAll") :
                 /\ r.res = "Ok"
                 /\ \A e \in {LastSaved.entry, LastSaved'.entry} :
                       Count(r.entries, e) = Count(LiveEntries', e)]_vars

\* C3 (delete-then-load, both engines): an id deleted and not saved since loads as
\* None, and a successful delete leaves what load returns for every other id
\* as it was.
C3_DeleteThenLoad ==
    [][/\ \A id \in live'.deleted : LoadOf(Store("A")', id) = LoadNone
       /\ last' = Call("delete", "Ok")
            => \A other \in Ids \ live'.deleted :
                  LoadOf(Store("A")', other) = Load("A", other)]_vars

\* C4 (search correctness, both engines): after any successful save and delete
\* calls, search(filter) returns the latest value of every id saved and not
\* deleted since that passes the filter, each once, and nothing else.
C4_SearchCorrect ==
    \A filter \in Filters : \A r \in Search("A", filter) :
        /\ r.res = "Ok"
        /\ SameEntries(r.entries, Passing(LiveEntries, filter))

\* C5 (indexed search order): in an indexed store that has seen only save and
\* delete, the Positions of the live ids ascend in the order of their last
\* writes, and search returns the passing entries in exactly that order.
C5_SearchOrder ==
    engine = "indexed" =>
        /\ \A a, b \in 1..Len(live.pairs) :
              a < b => index["A"][live.pairs[a].id].offset
                          < index["A"][live.pairs[b].id].offset
        /\ \A filter \in Filters :
              Search("A", filter) = {SearchOk(Passing(LiveEntries, filter))}

\* the case of C5: id 1 written again after id 2, so that the order of the last
\* writes is neither the order of the ids nor the order of the first writes
C5_Witness ==
    /\ engine = "indexed"
    /\ Len(live.pairs) = 2
    /\ live.pairs[1].id = Id2
    /\ index["A"][Id2].offset > 0
    /\ Search("A", "MatchAll") = {SearchOk(<<live.pairs[1].entry, live.pairs[2].entry>>)}

----------------------------------------------------------------------------
(* Compaction and the index file *)

\* C6 (compaction preserves content): a successful write_data() leaves load(id)
\* as it was for every id: Some of the same entry for an id of the in-memory
\* index, None for every other id, the deleted ones among them.
C6_CompactionPreserves ==
    [][last' = Call("write_data", "Ok")
        => \A id \in Ids :
              /\ LoadOf(Store("A")', id) = Load("A", id)
              /\ Load("A", id).res = IF id \in DOMAIN index["A"] THEN "Some" ELSE "None"]_vars

\* the case of C6: the index file still maps id 2 to the offset it had behind
\* the garbage of the deleted id 1, the compacted data file holds it at offset 0
C6_Witness ==
    /\ last = Call("write_data", "Ok")
    /\ live.tracked /\ live.deleted = {Id1}
    /\ load_index(index_file).index = (Id1 :> Position(0, 22) @@ Id2 :> Position(22, 22))
    /\ index["A"] = (Id2 :> Position(0, 22))
    /\ Load("A", Id2) = LoadSome(LiveEntry(Id2))
    /\ Load("A", Id1) = LoadNone

\* C7 (compaction ordering): when a successful rewrite_index() followed a
\* successful write_data(), a reload_index() after it, on this instance or on a
\* new one over the two files, succeeds and load returns for every id what it
\* returned before the compaction; and right after a write_data() the index
\* file is the one from before the compaction, with the offsets of then.
C7_CompactionOrdering ==
    /\ (compacted.phase = "persisted" /\ last.op = "reload_index")
          => /\ last.res = "Ok"
             /\ \A id \in Ids : Load("A", id) = compacted.loads[id]
    /\ compacted.phase = "written" => index_file = compacted.index_file

\* the case of C7: id 2 was at offset 22 in the index file before the
\* compaction, and a new instance that reloaded the rewritten index file
\* finds it at offset 0
C7_Witness ==
    /\ compacted.phase = "persisted"
    /\ last = Call("reload_index", "Ok")
    /\ load_index(compacted.index_file).index
          = (Id1 :> Position(0, 22) @@ Id2 :> Position(22, 22))
    /\ index["A"] = (Id2 :> Position(0, 22))
    /\ ~needs_data_rewrite["A"]
    /\ compacted.loads[Id2].res = "Some"
    /\ Load("A", Id2) = compacted.loads[Id2]

----------------------------------------------------------------------------
(* Two instances over one file pair *)

\* what C8 says of A.rewrite_index() followed by B.reload_index(): the reload
\* succeeds and B loads every entry saved through A and not deleted since
VisibleAfterReload ==
    (last = Call("rewrite_index", "Ok") /\ last'.op = "reload_index")
        => /\ last'.res = "Ok"
           /\ \A k \in 1..Len(live.pairs) :
                 LoadOf(Store("B")', live.pairs[k].id) = LoadSome(live.pairs[k].entry)

----------------------------------------------------------------------------
(* Construction *)

\* C9: new() leaves the in-memory index empty and both flags false, whether the
\* data file and the index file exist or not and whatever the index file
\* holds; it leaves a file that exists as it is; and load(id) returns None
\* after it, and keeps returning None for every id as long as neither
\* reload_index() nor save is called.
C9_New ==
    [][/\ last'.op = "new"
            => /\ index'["A"] = EmptyIndex
               /\ ~needs_index_rewrite'["A"] /\ ~needs_data_rewrite'["A"]
               /\ data_file.exists => data_file' = data_file
               /\ index_file.exists => index_file' = index_file
               /\ \A id \in Ids : LoadOf(Store("A")', id) = LoadNone
       /\ ((\A id \in Ids : Load("A", id) = LoadNone)
                /\ last'.op \notin {"reload_index", "save"})
            => \A id \in Ids : LoadOf(Store("A")', id) = LoadNone]_vars

\* the case of C9: new() found an index file that holds both ids and no data
\* file; it created the data file empty and left the index file and its own
\* index as they were
C9_Witness ==
    /\ last = Call("new", "Ok")
    /\ DOMAIN load_index(index_file).index = {Id1, Id2}
    /\ data_file = FileOf(<<>>)
    /\ index["A"] = EmptyIndex
    /\ \A id \in Ids : Load("A", id) = LoadNone

----------------------------------------------------------------------------
(* The dirty flags *)

\* C10: right after a successful save on the indexed store,
\* needs_index_rewrite() is true.
C10_SaveSetsIndexFlag ==
    (engine = "indexed" /\ last = Call("save", "Ok")) => needs_index_rewrite["A"]

\* the case of C10: the index file holds the first of two saved ids, so a
\* rewrite_index had cleared the flag before the second save set it again
C10_Witness ==
    /\ engine = "indexed"
    /\ last = Call("save", "Ok")
    /\ DOMAIN load_index(index_file).index = {Id1}
    /\ DOMAIN index["A"] = {Id1, Id2}
    /\ CountPayloads(data_file.bytes) = 2
    /\ needs_index_rewrite["A"]


\* C11: a successful rewrite_index() leaves needs_index_rewrite() false, and a
\* reload_index() never turns a false needs_index_rewrite() true: the flag
\* stays false across the reload_index() calls that follow, until a save.
C11_IndexFlagCleared ==
    [][/\ last' = Call("rewrite_index", "Ok") => ~needs_index_rewrite'["A"]
       /\ (~needs_index_rewrite["A"] /\ last'.op = "reload_index")
            => ~needs_index_rewrite'["A"]]_vars

\* the case of C11: a save set the flag, a rewrite_index wrote the saved id to
\* the index file, and a reload_index has run since with the flag still false
C11_Witness ==
    /\ engine = "indexed"
    /\ last.op = "reload_index"
    /\ DOMAIN index["A"] = {Id1}
    /\ DOMAIN load_index(index_file).index = {Id1}
    /\ ~needs_index_rewrite["A"]

\* C12: every delete(id) on the indexed store returns Ok and leaves
\* needs_data_rewrite() true and the index without id, also when id was not in
\* the index before the call.
C12_DeleteSetsDataFlag ==
    [][\A id \in Ids :
          Idx_delete("A", id)
            => /\ last'.res = "Ok"
               /\ needs_data_rewrite'["A"]
               /\ id \notin DOMAIN index'["A"]]_vars

\* the case of C12: a write_data compacted the data file to the one indexed
\* entry and cleared the flag, and then a delete of the id that is not in the
\* index set it again
C12_Witness ==
    /\ engine = "indexed"
    /\ last = Call("delete", "Ok")
    /\ compacted = NotCompacted
    /\ DOMAIN index["A"] = {Id1}
    /\ data_file.bytes = SerEntry(E1a)
    /\ DOMAIN load_index(index_file).index = {Id1, Id2}
    /\ needs_data_rewrite["A"]

\* C13: a successful write_data() leaves needs_data_rewrite() false, and no
\* call other than delete turns a false needs_data_rewrite() true.
C13_DataFlagCleared ==
    [][/\ last' = Call("write_data", "Ok") => ~needs_data_rewrite'["A"]
       /\ (~needs_data_rewrite["A"] /\ last'.op # "delete")
            => ~needs_data_rewrite'["A"]]_vars

\* the case of C13: a delete set the flag, a write_data cleared it, and a save
\* has followed with the flag still false
C13_Witness ==
    /\ engine = "indexed"
    /\ last = Call("save", "Ok")
    /\ DOMAIN index["A"] = {Id1}
    /\ live.tracked
    /\ live.deleted = {Id2}
    /\ ~needs_data_rewrite["A"]

\* C14: a rewrite_index() that returns an error leaves needs_index_rewrite as
\* it was, and a write_data() that returns an error leaves needs_data_rewrite
\* as it was; a flag that is true stays true on the instance (new makes another
\* instance) until a call of its own operation succeeds.
C14_FailureKeepsFlag ==
    [][/\ (last'.op = "rewrite_index" /\ last'.res # "Ok")
            => needs_index_rewrite'["A"] = needs_index_rewrite["A"]
       /\ (last'.op = "write_data" /\ last'.res # "Ok")
            => needs_data_rewrite'["A"] = needs_data_rewrite["A"]
       /\ (needs_index_rewrite["A"] /\ last' # Call("rewrite_index", "Ok")
                /\ last'.op # "new")
            => needs_index_rewrite'["A"]
       /\ (needs_data_rewrite["A"] /\ last' # Call("write_data", "Ok")
                /\ last'.op # "new")
            => needs_data_rewrite'["A"]]_vars

\* the case of C14: with both flags set, rewrite_index can only fail (an id of
\* the index does not fit a slot) and write_data has just failed on an entry it
\* could not read
C14_Witness ==
    /\ last.op = "write_data"
    /\ last.res \in {"IoError", "SerializationError"}
    /\ data_file.exists
    /\ IdTooLong \in DOMAIN index["A"]
    /\ write_index(index["A"], <<IdTooLong>>).res = "IndexRecordTooLarge"
    /\ needs_index_rewrite["A"]
    /\ needs_data_rewrite["A"]

\* the id -> Position map that load_index decodes from the index file
IndexOnFile == load_index(index_file).index

\* C15: on an indexed store driven from empty files, whenever the in-memory
\* index differs from the map decoded from the index file,
\* needs_index_rewrite() is true.
C15_IndexFlagMeaning ==
    (engine = "indexed" /\ index["A"] # IndexOnFile) => needs_index_rewrite["A"]

\* the bytes of the data file (numbered from 1) that lie in the range of no
\* Position of the in-memory index
Garbage(data, idx) ==
    {k \in 1..Len(data.bytes) :
        \A id \in DOMAIN idx : ~(idx[id].offset < k /\ k <= idx[id].offset + idx[id].length)}

\* C16: on an indexed store driven from empty files by save, delete and
\* write_data, whenever the data file holds a byte range that no Position of the
\* in-memory index covers, needs_data_rewrite() is true.
C16_DataFlagMeaning ==
    (engine = "indexed" /\ Garbage(data_file, index["A"]) # {})
        => needs_data_rewrite["A"]

----------------------------------------------------------------------------
(* The index slot *)

\* the record write_index encodes for an id of the index
IndexRecord(idx, id) == SerIndexEntry(id, idx[id])
TooLarge(idx) == {id \in DOMAIN idx : Len(IndexRecord(idx, id)) > INDEX_RECORD_SIZE}

\* bytes that are a sequence of whole slots, each holding the complete record of
\* its id and zeros after it
RECURSIVE WholeSlots(_)
WholeSlot(slot, record) ==
    /\ record.ok
    /\ slot = SerIndexEntry(record.val.id, record.val.position)
                \o Zeros(INDEX_RECORD_SIZE - record.next)
WholeSlots(bytes) ==
    \/ bytes = <<>>
    \/ /\ Len(bytes) >= INDEX_RECORD_SIZE
       /\ WholeSlot(Take(bytes, INDEX_RECORD_SIZE), DeIndexEntry(Take(bytes, INDEX_RECORD_SIZE)))
       /\ WholeSlots(Drop(bytes, INDEX_RECORD_SIZE))

\* C17 (slot-size bound): when the in-memory index holds an id whose record is
\* longer than the slot, rewrite_index() returns IndexRecordTooLarge, leaves the
\* index file as it was and needs_index_rewrite as it was; what write_index has
\* written by then, and what the index file holds at any time, is whole slots
\* only: no record is ever cut to the slot.
C17_SlotSizeBound ==
    [][/\ (last'.op = "rewrite_index" /\ TooLarge(index["A"]) # {})
            => /\ last'.res = "IndexRecordTooLarge"
               /\ index_file' = index_file
               /\ needs_index_rewrite'["A"] = needs_index_rewrite["A"]
       /\ \A order \in Perms(DOMAIN index["A"]) :
             WholeSlots(write_index(index["A"], order).file.bytes)
       /\ WholeSlots(index_file.bytes)]_vars

\* the case of C17: the index file holds the slot of the id that fits, the
\* index holds the id that is one byte too long as well, and rewrite_index has
\* just refused to write it
C17_Witness ==
    /\ last = Call("rewrite_index", "IndexRecordTooLarge")
    /\ DOMAIN index["A"] = {IdFits, IdTooLong}
    /\ DOMAIN load_index(index_file).index = {IdFits}
    /\ Len(index_file.bytes) = INDEX_RECORD_SIZE
    /\ needs_index_rewrite["A"]

\* C18 (the slot fits a canonical id): the record write_index encodes for a
\* 36-character UUID id is at most INDEX_RECORD_SIZE bytes long, and a
\* rewrite_index() of an index whose ids are such UUIDs, over an index file
\* that exists, returns Ok.
C18_UuidFitsSlot ==
    /\ IdUuid \in DOMAIN index["A"]
            => Len(IndexRecord(index["A"], IdUuid)) <= INDEX_RECORD_SIZE
    /\ (last.op = "rewrite_index" /\ DOMAIN index["A"] = {IdUuid} /\ index_file.exists)
            => last.res = "Ok"

----------------------------------------------------------------------------
(* The length-prefixed iterator over a file that is cut off or corrupt *)

\* the bytes the iterator has not read when it has yielded every record it can
RECURSIVE Unread(_), UnreadAfter(_, _)
UnreadAfter(bytes, n) == IF n.tag = "Item" THEN Unread(n.rest) ELSE bytes
Unread(bytes) == UnreadAfter(bytes, BinaryRecordIterator_next(bytes))

\* the result of save(id, value) and of delete(id) on the store as it is
SaveResult(id, value) == move_to_new_file(file, file_tmp, {id}, <<value>>).res
DeleteResult(id) == move_to_new_file(file, file_tmp, {id}, <<>>).res

\* C19 (truncated length): when the file ends after 1 to 7 bytes of a length
\* prefix, the iterator yields an I/O error at that step, and search, save,
\* delete, and load of an id that no record before the cut carries, return an
\* error.
C19_TruncatedLength ==
    (file.exists /\ file_tmp = Absent /\ Len(Unread(file.bytes)) \in 1..7)
        => /\ BinaryRecordIterator_next(Unread(file.bytes)) = RecordErr("IoError")
           /\ Full_search(file, "MatchAll").res = "IoError"
           /\ \A id \in Ids : Full_load(file, id).res \in {"Some", "IoError"}
           /\ \A id \in Ids : DeleteResult(id) = "IoError"
           /\ \A id \in Ids, value \in Entries : SaveResult(id, value) = "IoError"

\* C20 (boundary and payload): the iterator returns None when no byte is left
\* after the last record, and yields Some(Err(IoError)) when the 8 bytes of a
\* length are there and fewer payload bytes than that length follow them.
C20_BoundaryAndPayload ==
    file.exists
        => /\ Unread(file.bytes) = <<>>
                => BinaryRecordIterator_next(Unread(file.bytes)) = RecordEnd
           /\ (/\ Len(Unread(file.bytes)) >= 8
               /\ DeU64(Take(Unread(file.bytes), 8)) > Len(Unread(file.bytes)) - 8)
                => BinaryRecordIterator_next(Unread(file.bytes)) = RecordErr("IoError")

----------------------------------------------------------------------------
(* The fixed-width iterator and reload_index over an index file that is cut *)
(* off or corrupt                                                           *)

\* the bytes the index iterator has not read when it has yielded every record
\* it can
RECURSIVE IndexUnread(_), IndexUnreadAfter(_, _)
IndexUnreadAfter(bytes, n) == IF n.tag = "Item" THEN IndexUnread(n.rest) ELSE bytes
IndexUnread(bytes) ==
    IndexUnreadAfter(bytes, BinaryIndexIterator_next(bytes, INDEX_RECORD_SIZE))

\* C21 (short trailing record): when the index file ends after 1 to 51 bytes of
\* a slot, the iterator yields an I/O error for that read and load_index fails
\* with it; the iterator returns None only when no byte is left after the last
\* slot.
C21_ShortTrailingRecord ==
    index_file.exists
        => /\ Len(IndexUnread(index_file.bytes)) \in 1..(INDEX_RECORD_SIZE - 1)
                => /\ BinaryIndexIterator_next(IndexUnread(index_file.bytes), INDEX_RECORD_SIZE)
                        = RecordErr("IoError")
                   /\ load_index(index_file).res = "IoError"
           /\ BinaryIndexIterator_next(IndexUnread(index_file.bytes), INDEX_RECORD_SIZE) = RecordEnd
                => IndexUnread(index_file.bytes) = <<>>

\* C22 (fail-soft): a reload_index() whose load_index fails, on opening the
\* index file or on decoding a slot, returns, and leaves the in-memory index
\* and both dirty flags as they were.
C22_ReloadFailSoft ==
    [][(last'.op = "reload_index" /\ last'.res # "Ok")
        => /\ last'.res \in {"IoError", "SerializationError"}
           /\ index' = index
           /\ needs_index_rewrite' = needs_index_rewrite
           /\ needs_data_rewrite' = needs_data_rewrite]_vars

\* the case of C22: a slot of the index file does not decode, and the failed
\* reload_index has left an index that holds a saved id, and both flags set
C22_Witness ==
    /\ last = Call("reload_index", "SerializationError")
    /\ index_file.exists
    /\ DOMAIN index["A"] = {Id1}
    /\ needs_index_rewrite["A"]
    /\ needs_data_rewrite["A"]

\* the slots of an index file, and what each decodes to
NSlots(bytes) == Len(bytes) \div INDEX_RECORD_SIZE
Slot(bytes, k) == SubSeq(bytes, INDEX_RECORD_SIZE * (k - 1) + 1, INDEX_RECORD_SIZE * k)
SlotEntry(bytes, k) == DeIndexEntry(Slot(bytes, k)).val

\* idx is the map the slots of bytes decode to: the ids of the slots, each with
\* the Position of its last slot
DecodedFrom(idx, bytes) ==
    /\ DOMAIN idx = {SlotEntry(bytes, k).id : k \in 1..NSlots(bytes)}
    /\ \A k \in 1..NSlots(bytes) :
          \/ idx[SlotEntry(bytes, k).id] = SlotEntry(bytes, k).position
          \/ \E later \in (k + 1)..NSlots(bytes) :
                SlotEntry(bytes, later).id = SlotEntry(bytes, k).id

\* C27 (replace, not merge): after a reload_index() whose load_index succeeds,
\* the in-memory index is the map the slots of the index file decode to, with
\* no id in it that no slot holds; neither dirty flag has changed.
C27_ReloadReplaces ==
    [][last' = Call("reload_index", "Ok")
        => /\ DecodedFrom(index'["A"], index_file.bytes)
           /\ needs_index_rewrite' = needs_index_rewrite
           /\ needs_data_rewrite' = needs_data_rewrite]_vars

\* the case of C27: an id was saved and no rewrite_index has succeeded since
\* (the flag is set); the reload_index over the index file, which holds no
\* slot, has emptied the index
C27_Witness ==
    /\ last = Call("reload_index", "Ok")
    /\ CountPayloads(data_file.bytes) = 1
    /\ index_file = FileOf(<<>>)
    /\ index["A"] = EmptyIndex
    /\ needs_index_rewrite["A"]

\* C28 (index round-trip): a successful rewrite_index() leaves an index file of
\* one 52-byte slot per indexed id that decodes to the in-memory index, and the
\* reload_index() that follows it succeeds and leaves the in-memory index as it
\* was, the index file still holding one slot per indexed id.
C28_IndexRoundTrip ==
    [][/\ last' = Call("rewrite_index", "Ok")
            => /\ Len(index_file'.bytes) = INDEX_RECORD_SIZE * Cardinality(DOMAIN index["A"])
               /\ DecodedFrom(index["A"], index_file'.bytes)
       /\ (last = Call("rewrite_index", "Ok") /\ last'.op = "reload_index")
            => /\ last'.res = "Ok"
               /\ index'["A"] = index["A"]
               /\ Len(index_file'.bytes) = INDEX_RECORD_SIZE * Cardinality(DOMAIN index'["A"])]_vars

\* the case of C28: an index of two ids, one of them saved anew since the index
\* file was found, has been written and loaded back
C28_Witness ==
    /\ last = Call("reload_index", "Ok")
    /\ DOMAIN index["A"] = {Id1, Id2}
    /\ index["A"][Id1].length = Len(SerEntry(E1b))
    /\ DecodedFrom(index["A"], index_file.bytes)
    /\ Len(index_file.bytes) = 2 * INDEX_RECORD_SIZE
    /\ ~needs_index_rewrite["A"]

----------------------------------------------------------------------------
(* The replacement file of the full-rewrite store *)

\* C23 (create-exclusive): a save or delete called while '<file_path>-tmp'
\* exists returns an I/O error and leaves the primary file as it was: every
\* load returns what it returned before the call.
C23_CreateExclusive ==
    [][(file_tmp.exists /\ last'.op \in {"save", "delete"})
        => /\ last'.res = "IoError"
           /\ file' = file
           /\ \A id \in Ids : Full_load(file', id) = Full_load(file, id)]_vars

\* the case of C23: the file holds a record and then a length that makes the
\* iterator panic, an earlier call left the '-tmp' file, and the save called
\* since was refused before it read the file
C23_Witness ==
    /\ last = Call("save", "IoError")
    /\ file_tmp.exists
    /\ Full_load(file, Id1) = LoadSome(E1a)
    /\ BinaryRecordIterator_next(Unread(file.bytes)) = RecordErr("Panic")

----------------------------------------------------------------------------
(* What the calls of the indexed store change and what they leave alone *)

\* C24 (append-only save): a successful save(id, e) leaves the bytes the data
\* file held where they were, adds the serialized e after them and nothing
\* else, sets index[id] to the Position of the added bytes (offset: the length
\* of the file before the call), and leaves the Position of every other id.
C24_SaveAppends ==
    [][\A id \in Ids, value \in Entries :
          (Idx_save("A", id, value) /\ last'.res = "Ok")
            => /\ data_file'.bytes = data_file.bytes \o SerEntry(value)
               /\ DOMAIN index'["A"] = DOMAIN index["A"] \cup {id}
               /\ index'["A"][id] = Position(Len(data_file.bytes), Len(SerEntry(value)))
               /\ \A other \in DOMAIN index["A"] \ {id} :
                     index'["A"][other] = index["A"][other]]_vars

\* the case of C24: a save over an id that had a Position, after the save of
\* another id: the id has moved behind the other one, whose Position stayed
C24_Witness ==
    /\ engine = "indexed"
    /\ last = Call("save", "Ok")
    /\ live.tracked
    /\ Len(live.pairs) = 2
    /\ LastSaved.id = Id1
    /\ DOMAIN index["A"] = {Id1, Id2}
    /\ index["A"][Id2] = Position(Len(SerEntry(E1a)), Len(SerEntry(live.pairs[1].entry)))
    /\ index["A"][Id1].offset > index["A"][Id2].offset
    /\ Garbage(data_file, index["A"]) = 1..Len(SerEntry(E1a))

\* C25: a save on the indexed store leaves needs_data_rewrite as it was, also
\* when it replaces the Position of an id that is in the index.
C25_SaveKeepsDataFlag ==
    [][(engine = "indexed" /\ last'.op = "save")
        => needs_data_rewrite'["A"] = needs_data_rewrite["A"]]_vars

\* the case of C25: no delete has been called, the second save replaced the
\* Position of the id of the first, whose bytes are garbage now, and the flag
\* is false
C25_Witness ==
    /\ engine = "indexed"
    /\ last = Call("save", "Ok")
    /\ live = Tracked(live.pairs, {})
    /\ DOMAIN index["A"] = {Id1}
    /\ index["A"][Id1].offset > 0
    /\ Garbage(data_file, index["A"]) # {}
    /\ ~needs_data_rewrite["A"]

\* C26: delete(id) on the indexed store leaves the data file, the index file,
\* needs_index_rewrite and the Position of every other id as they were; it
\* takes id out of the in-memory index and sets needs_data_rewrite.
C26_DeleteTouchesIndexOnly ==
    [][\A id \in Ids :
          Idx_delete("A", id)
            => /\ data_file' = data_file
               /\ index_file' = index_file
               /\ needs_index_rewrite' = needs_index_rewrite
               /\ DOMAIN index'["A"] = DOMAIN index["A"] \ {id}
               /\ \A other \in DOMAIN index["A"] \ {id} :
                     index'["A"][other] = index["A"][other]
               /\ needs_data_rewrite'["A"]]_vars

\* the case of C26: of two saved ids the first was deleted: the other one has
\* kept its Position behind the bytes of the first, which are in the data file
C26_Witness ==
    /\ engine = "indexed"
    /\ last = Call("delete", "Ok")
    /\ DOMAIN index["A"] = {Id2}
    /\ index["A"][Id2].offset > 0
    /\ Len(data_file.bytes) = index["A"][Id2].offset + index["A"][Id2].length
    /\ needs_index_rewrite["A"]
    /\ needs_data_rewrite["A"]

\* C29: a write_data() call, whether it succeeds or fails, leaves the index
\* file and needs_index_rewrite as they were; a successful one changes the
\* Positions of the in-memory index whenever a byte of garbage lay in front of
\* an indexed entry.
C29_CompactionKeepsIndexFile ==
    [][last'.op = "write_data"
        => /\ index_file' = index_file
           /\ needs_index_rewrite' = needs_index_rewrite
           /\ (/\ last'.res = "Ok"
               /\ \E id \in DOMAIN index["A"] :
                     \E k \in Garbage(data_file, index["A"]) : k <= index["A"][id].offset)
                => index'["A"] # index["A"]]_vars

\* the case of C29: the index file holds the Positions of two ids as a
\* rewrite_index wrote them; the first id was deleted and write_data has moved
\* the second to the start of the data file, which the index file does not show
C29_Witness ==
    /\ last = Call("write_data", "Ok")
    /\ DOMAIN index["A"] = {Id2}
    /\ index["A"][Id2].offset = 0
    /\ DOMAIN IndexOnFile = {Id1, Id2}
    /\ IndexOnFile[Id2].offset > 0
    /\ ~needs_index_rewrite["A"]

\* the sum of the lengths of the Positions of an index
RECURSIVE SumOfLengths(_)
SumOfLengths(idx) ==
    IF DOMAIN idx = {} THEN 0
    ELSE idx[CHOOSE id \in DOMAIN idx : TRUE].length
            + SumOfLengths(IndexRemove(idx, CHOOSE id \in DOMAIN idx : TRUE))

\* the bytes of a data file in the range of a Position
Range(data, position) ==
    SubSeq(data.bytes, position.offset + 1, position.offset + position.length)

\* a data file that holds the payloads of the indexed entries, each once, and
\* nothing else
Compact(data, idx) ==
    /\ Garbage(data, idx) = {}
    /\ Len(data.bytes) = SumOfLengths(idx)
    /\ \A a, b \in DOMAIN idx :
          a # b => \/ idx[a].offset + idx[a].length <= idx[b].offset
                   \/ idx[b].offset + idx[b].length <= idx[a].offset
    /\ \A id \in DOMAIN idx :
          /\ idx[id].length > 0
          /\ get(data, idx[id]).res = "Some"
          /\ Range(data, idx[id]) = SerEntry(get(data, idx[id]).entry)
    /\ idx = EmptyIndex => data.bytes = <<>>

\* C30 (compaction reclaims all garbage): after a successful write_data() the
\* data file is the serialized payloads of the entries of the in-memory index,
\* each once and nothing else: its length is the sum of the indexed lengths, the
\* Positions cover it without a gap and without overlap, and it is empty when
\* the index is empty.
C30_CompactionReclaims ==
    [][last' = Call("write_data", "Ok") => Compact(data_file', index'["A"])]_vars

\* the case of C30: the index file shows the two payloads a rewrite_index found
\* in the data file; the id of the first was deleted since, and write_data has
\* left a data file that is the payload of the second id
C30_Witness ==
    /\ last = Call("write_data", "Ok")
    /\ DOMAIN IndexOnFile = {Id1, Id2}
    /\ IndexOnFile[Id1].offset = 0
    /\ IndexOnFile[Id2].offset = IndexOnFile[Id1].length
    /\ DOMAIN index["A"] = {Id2}
    /\ Len(data_file.bytes) = IndexOnFile[Id2].length
    /\ Compact(data_file, index["A"])

----------------------------------------------------------------------------
(* Calls that fail *)

\* C31: a save on the indexed store that returns an error leaves the in-memory
\* index and both dirty flags as they were, and load(id) does not return the
\* entry whose save failed.
C31_FailedSaveChangesNothing ==
    [][\A id \in SlotIds :
          (Idx_save("A", id, Entry(id, <<65>>, None)) /\ last'.res # "Ok")
            => /\ index' = index
               /\ needs_index_rewrite' = needs_index_rewrite
               /\ needs_data_rewrite' = needs_data_rewrite
               /\ LoadOf(Store("A")', id) # LoadSome(Entry(id, <<65>>, None))]_vars

\* the case of C31: the data file was removed after an id was saved and another
\* deleted; the save that followed has failed and the index holds the one id
C31_Witness ==
    /\ last = Call("save", "IoError")
    /\ ~data_file.exists
    /\ DOMAIN index["A"] = {IdFits}
    /\ needs_index_rewrite["A"]
    /\ needs_data_rewrite["A"]

----------------------------------------------------------------------------
(* The file of the full-rewrite store *)

\* the records BinaryRecordIterator yields from a file, as (key, entry) pairs
RECURSIVE Records(_), RecordsFrom(_)
RecordsFrom(n) ==
    IF n.tag = "Item" THEN <<[id |-> n.id, entry |-> n.entry]>> \o Records(n.rest)
    ELSE <<>>
Records(bytes) == RecordsFrom(BinaryRecordIterator_next(bytes))
OtherRecords(records, id) == SelectSeq(records, LAMBDA r : r.id # id)
EntriesOf(records) == [k \in 1..Len(records) |-> records[k].entry]

\* the frame of a successful save(id, value) and of a successful delete(id) on
\* the file, and the order of a search
SaveFrame(before, after, id, value) ==
    after = OtherRecords(before, id) \o <<[id |-> id, entry |-> value]>>
DeleteFrame(before, after, id) ==
    /\ after = OtherRecords(before, id)
    /\ (\A k \in 1..Len(before) : before[k].id # id) => after = before
SearchInFileOrder(existing, filter) ==
    Full_search(existing, filter)
        = SearchOk(Passing(EntriesOf(Records(existing.bytes)), filter))

\* C32: on the full-rewrite store a successful save(id, e) leaves the records
\* of every other id with their content and in their relative order and puts
\* the record of id last in the file; a successful delete(id) leaves the
\* records of every other id likewise, and the whole sequence when id is not
\* stored; search returns the matching entries in file order.
C32_RebuildFrame ==
    [][/\ (engine = "full" /\ last' = Call("save", "Ok"))
             => SaveFrame(Records(file.bytes), Records(file'.bytes),
                          LastSaved'.id, LastSaved'.entry)
       /\ \A id \in Ids :
             (Full_delete(id) /\ last'.res = "Ok")
                => DeleteFrame(Records(file.bytes), Records(file'.bytes), id)
       /\ engine = "full" => \A filter \in Filters : SearchInFileOrder(file', filter)]_vars

\* C37: no two records of the file of the full-rewrite store carry the same
\* id, whatever saves and deletes were made, also with ids that differ from
\* entry.id.
C37_UniqueIds ==
    engine = "full"
        => \A j, k \in 1..Len(Records(file.bytes)) :
              Records(file.bytes)[j].id = Records(file.bytes)[k].id => j = k

\* C38: when save or delete on the full-rewrite store returns an error after
\* it created the replacement file, no replacement file is left, and the save
\* or delete that follows is not rejected for it.
C38_NoTempLeft ==
    [][(engine = "full" /\ ~file_tmp.exists
            /\ last'.op \in {"save", "delete"} /\ last'.res # "Ok")
          => /\ ~file_tmp'.exists
             /\ \A id \in Ids :
                   move_to_new_file(file', file_tmp', {id}, <<>>).res
                       = move_to_new_file(file', Absent, {id}, <<>>).res]_vars

----------------------------------------------------------------------------
(* Compaction, the index file and reload_index *)

\* the history of the ordering obligation of write_data: "written" from a
\* successful write_data until a rewrite_index succeeds ("persisted"), and
\* "broken" for the rest of the run once reload_index read the index file in
\* between
ObligedAfter(op) ==
    CASE compacted.phase = "broken" -> compacted
      [] op = "write_data" /\ last'.res = "Ok" ->
            [compacted EXCEPT !.phase = "written"]
      [] op = "rewrite_index" /\ last'.res = "Ok" /\ compacted.phase = "written" ->
            [compacted EXCEPT !.phase = "persisted"]
      [] op = "reload_index" /\ compacted.phase = "written" ->
            [compacted EXCEPT !.phase = "broken"]
      [] OTHER -> compacted

\* one instance of the indexed store driven by any sequence of save(e.id, e),
\* delete, rewrite_index, write_data and reload_index
NextObliged ==
    \/ \E value \in Entries :
          /\ CountPayloads(data_file.bytes) < MaxRecords
          /\ Idx_save("A", value.id, value)
          /\ compacted' = ObligedAfter("save")
          /\ live' = Untracked
          /\ UNCHANGED persisted
    \/ \E id \in Ids :
          /\ Idx_delete("A", id)
          /\ compacted' = ObligedAfter("delete")
          /\ live' = Untracked
          /\ UNCHANGED persisted
    \/ /\ rewrite_index("A")
       /\ compacted' = ObligedAfter("rewrite_index")
       /\ UNCHANGED <<live, persisted>>
    \/ /\ write_data("A")
       /\ compacted' = ObligedAfter("write_data")
       /\ UNCHANGED <<live, persisted>>
    \/ /\ reload_index("A")
       /\ compacted' = ObligedAfter("reload_index")
       /\ UNCHANGED <<live, persisted>>

SpecObliged == InitTwo /\ [][NextObliged]_vars

\* load(id) returns None, an error, or an entry saved under id (every save of
\* these runs is save(e.id, e), so an entry was saved under the id it carries)
NotForeign(loaded, id) == loaded.res = "Some" => loaded.entry.id = id

\* C33 as stated: in every state reachable by any sequence of save, delete,
\* rewrite_index, write_data and reload_index, load(id) never returns an entry
\* saved under a different id.
C33_AsStated == \A id \in Ids : NotForeign(Load("A", id), id)

\* C33, amended: the same, in every state reachable by a sequence in which no
\* reload_index follows a successful write_data without a successful
\* rewrite_index in between.
C33_NeverForeign ==
    compacted.phase # "broken" => \A id \in Ids : NotForeign(Load("A", id), id)

\* the case of C33: a write_data succeeded, then a rewrite_index, then
\* reload_index; the data file holds the one payload of id 2 at offset 0, and
\* id 2 loads its own entry
C33_Witness ==
    /\ last = Call("reload_index", "Ok")
    /\ compacted.phase = "persisted"
    /\ data_file.bytes = SerEntry(E2a)
    /\ index["A"] = (Id2 :> Position(0, 22))
    /\ Load("A", Id2) = LoadSome(E2a)
    /\ Load("A", Id1) = LoadNone

\* one instance driven by a caller who saves e under e.id and persists by the
\* dirty flags: it calls rewrite_index exactly when needs_index_rewrite() is
\* true and write_data exactly when needs_data_rewrite() is true, and
\* reload_index (or new, for a new instance over the same files) once neither
\* flag is set. The history of saves and deletes is kept across reload_index
\* and new.
NextFlagDriven ==
    \/ \E value \in Entries :
          /\ CountPayloads(data_file.bytes) < MaxRecords
          /\ Idx_save("A", value.id, value)
          /\ live' = LiveAfterSave(value.id, value)
          /\ UNCHANGED <<compacted, persisted>>
    \/ \E id \in Ids :
          /\ Idx_delete("A", id)
          /\ live' = LiveAfterDelete(id)
          /\ UNCHANGED <<compacted, persisted>>
    \/ /\ needs_index_rewrite["A"]
       /\ rewrite_index("A")
       /\ UNCHANGED <<live, compacted, persisted>>
    \/ /\ needs_data_rewrite["A"]
       /\ write_data("A")
       /\ UNCHANGED <<live, compacted, persisted>>
    \/ /\ ~needs_index_rewrite["A"] /\ ~needs_data_rewrite["A"]
       /\ reload_index("A")
       /\ UNCHANGED <<live, compacted, persisted>>
    \/ /\ ~needs_index_rewrite["A"] /\ ~needs_data_rewrite["A"]
       /\ Idx_new("A")
       /\ UNCHANGED <<live, compacted, persisted>>

SpecFlagDriven == InitTwo /\ [][NextFlagDriven]_vars

\* C34: for a caller who persists by the dirty flags, an id that was deleted
\* and not saved again loads as None after reload_index (on the same instance
\* or on a new one over the same files).
C34_DeletesSurvive ==
    (last.op \in {"reload_index", "new"})
        => \A id \in live.deleted : Load("A", id) = LoadNone

----------------------------------------------------------------------------
(* Compaction that fails *)

\* one instance of the indexed store driven by save, delete and write_data,
\* over a file system that can refuse a step of write_data
NextRefused ==
    \/ \E value \in Entries :
          /\ CountPayloads(data_file.bytes) < MaxRecords
          /\ Idx_save("A", value.id, value)
          /\ NoHistory
    \/ \E id \in Ids : Idx_delete("A", id) /\ NoHistory
    \/ write_data("A") /\ NoHistory
    \/ \E step \in SwapSteps : write_data_refused("A", step) /\ NoHistory

SpecRefused == InitTwo /\ [][NextRefused]_vars

\* C35: when write_data returns an error, at whichever step, the in-memory
\* index is as before the call and load(id) returns for every indexed id what
\* it returned before the call.
C35_FailedCompaction ==
    [][(last'.op = "write_data" /\ last'.res # "Ok")
          => /\ index' = index
             /\ \A id \in DOMAIN index["A"] :
                   LoadOf(Store("A")', id) = Load("A", id)]_vars

----------------------------------------------------------------------------
(* The index and the data file *)

\* the byte numbers of the data file a Position covers
Covered(position) == (position.offset + 1)..(position.offset + position.length)

\* C36: in every state an indexed store reaches from empty files by successful
\* save, delete, write_data and rewrite_index calls (no reload_index), every
\* Position of the index lies within the data file, the ranges of two ids do
\* not overlap, and the bytes of a Position decode to the value last saved
\* under its id.
C36_IndexMatchesData ==
    (engine = "indexed" /\ live.tracked)
        => /\ DOMAIN index["A"] = LiveIds
           /\ \A id \in DOMAIN index["A"] :
                 /\ index["A"][id].offset + index["A"][id].length <= Len(data_file.bytes)
                 /\ \A other \in DOMAIN index["A"] \ {id} :
                       Covered(index["A"][id]) \cap Covered(index["A"][other]) = {}
                 /\ get(data_file, index["A"][id]) = LoadSome(LiveEntry(id))

\* the case of C36: id 1 was saved before id 2, and a write_data has put the
\* payload of id 2 first; the data file holds the two payloads
C36_Witness ==
    /\ last = Call("write_data", "Ok")
    /\ live.tracked
    /\ Len(live.pairs) = 2
    /\ live.pairs[1].id = Id1
    /\ index["A"] = (Id1 :> Position(22, 22) @@ Id2 :> Position(0, 22))
    /\ Len(data_file.bytes) = 44

\* C40: a match-all search after a successful write_data returns the live
\* entries in the order in which the search before the call returned them.
C40_SearchOrderKept ==
    [][last' = Call("write_data", "Ok")
          => SearchOf(Store("A")', "MatchAll") = Search("A", "MatchAll")]_vars

----------------------------------------------------------------------------
(* binary_file_entry_store.rs: save and delete, step by step *)

\* a save or delete between two of its steps: the step it has made, its
\* arguments, and the bytes of the file when it was called
SwapPoints == {"created", "filled", "removed"}
Pending(op, step, keys, entries, before) ==
    [op |-> op, res |-> step, keys |-> keys, entries |-> entries, before |-> before]
Stepped(step) == [last EXCEPT !.res = step]
InSwap == last.res \in SwapPoints

\* a move_to_new_file that removes the existing file as soon as it has created
\* the new one
Swap_create_removing(op, keys, entries) ==
    /\ engine = "full"
    /\ ~InSwap
    /\ IF file_tmp.exists
       THEN /\ last' = Call(op, "IoError")
            /\ UNCHANGED <<file, file_tmp>>
       ELSE /\ file_tmp' = FileOf(<<>>)
            /\ file' = Absent
            /\ last' = Pending(op, "created", keys, entries, file.bytes)
    /\ UNCHANGED <<engine, diskVars, index, needs_index_rewrite, needs_data_rewrite>>

\* move_to_new_file, the open of the new file with create_new
Swap_create(op, keys, entries) ==
    /\ engine = "full"
    /\ ~InSwap
    /\ IF file_tmp.exists
       THEN /\ last' = Call(op, "IoError")
            /\ UNCHANGED file_tmp
       ELSE /\ file_tmp' = FileOf(<<>>)
            /\ last' = Pending(op, "created", keys, entries, file.bytes)
    /\ UNCHANGED <<engine, file, diskVars, index, needs_index_rewrite, needs_data_rewrite>>

\* move_to_new_file, the rest: the existing file opened, the two loops, flush
Swap_filled(m) ==
    /\ file_tmp' = m.new_file
    /\ last' = IF m.res = "Ok" THEN Stepped("filled") ELSE Call(last.op, m.res)
Swap_fill ==
    /\ engine = "full"
    /\ last.res = "created"
    /\ Swap_filled(move_to_new_file(file, Absent, last.keys, last.entries))
    /\ UNCHANGED <<engine, file, diskVars, index, needs_index_rewrite, needs_data_rewrite>>

\* save and delete: fs::remove_file(&self.file_path)
Swap_remove ==
    /\ engine = "full"
    /\ last.res = "filled"
    /\ IF file.exists
       THEN file' = Absent /\ last' = Stepped("removed")
       ELSE file' = file /\ last' = Call(last.op, "IoError")
    /\ UNCHANGED <<engine, file_tmp, diskVars, index, needs_index_rewrite, needs_data_rewrite>>

\* save and delete: fs::rename(self.new_file_path(), &self.file_path)
Swap_rename ==
    /\ engine = "full"
    /\ last.res = "removed"
    /\ file' = file_tmp
    /\ file_tmp' = Absent
    /\ last' = Call(last.op, "Ok")
    /\ UNCHANGED <<engine, diskVars, index, needs_index_rewrite, needs_data_rewrite>>

\* the full-rewrite store over an empty file, its save and delete made one
\* step at a time
InitSwap == Init /\ engine = "full"
NextSwap ==
    \/ \E id \in Ids, value \in Entries :
          /\ CountRecords(file.bytes) < MaxSaved
          /\ Swap_create("save", {id}, <<value>>)
          /\ NoHistory
    \/ \E id \in Ids : Swap_create("delete", {id}, <<>>) /\ NoHistory
    \/ Swap_fill /\ NoHistory
    \/ Swap_remove /\ NoHistory
    \/ Swap_rename /\ NoHistory

SpecSwap == InitSwap /\ [][NextSwap]_vars

\* the bytes of the file when the call in progress has returned Ok
AfterSwap == move_to_new_file(FileOf(last.before), Absent, last.keys, last.entries).new_file.bytes
Holds(f, bytes) == f.exists /\ f.bytes = bytes

\* C39: at every point between two steps of a save or delete of the
\* full-rewrite store, the file or the '-tmp' file holds the complete contents
\* of before the call or of after it; and the file is removed only when the
\* '-tmp' file holds the complete contents of after the call.
C39_CompleteCopy ==
    [][/\ InSwap =>
             \/ Holds(file, last.before) \/ Holds(file, AfterSwap)
             \/ Holds(file_tmp, last.before) \/ Holds(file_tmp, AfterSwap)
       /\ (file.exists /\ ~file'.exists) => (InSwap /\ Holds(file_tmp, AfterSwap))]_vars

\* the case of C39: a save over a file of two records has removed the file;
\* the '-tmp' file holds the contents of after the call, which are not those
\* of before
C39_Witness ==
    /\ last.op = "save"
    /\ last.res = "removed"
    /\ ~file.exists
    /\ CountRecords(last.before) = 2
    /\ file_tmp = FileOf(AfterSwap)
    /\ AfterSwap # last.before
====
